---- MODULE Spec2Model ----
(***************************************************************************)
(* Model of main.py: a FastAPI application whose routes are registered in  *)
(* source order.  A request is (method, path, query, body); the dispatch   *)
(* layer picks the first registered route whose method and path template   *)
(* match, validates the declared parameters, and only then runs the        *)
(* handler body.  Handlers are modelled as operators computing the         *)
(* returned payload; a Python dict is a function from key to value.        *)
(***************************************************************************)
EXTENDS Integers, Sequences, FiniteSets, TLC

VARIABLES fake_items_db, request, response

vars == <<fake_items_db, request, response>>

(***************************************************************************)
(* Raw scalar values as they appear in a path segment or a query string.   *)
(* A numeral is carried with its integer value, any other text as text.    *)
(***************************************************************************)
Txt(s) == [k |-> "str", s |-> s, n |-> 0]
Num(n) == [k |-> "int", s |-> "", n |-> n]

\* Optional values: None is the empty tuple, a present value v is <<v>>.
None == <<>>
Some(v) == <<v>>

\* dict.update(e) on d: the keys of e win.
Update(d, e) == e @@ d

EmptyDict == [x \in {} |-> 0]

(***************************************************************************)
(* Route table, in registration order (the order of the decorators).      *)
(* A template segment is a literal or a {param} placeholder.               *)
(***************************************************************************)
Lit(s) == [param |-> FALSE, name |-> s]
Par(s) == [param |-> TRUE, name |-> s]
Route(m, t, e) == [method |-> m, template |-> t, endpoint |-> e]

\* The two /users routes declared in the opposite order.
RoutesSwapped ==
  << Route("GET",  <<Lit("")>>,                              "root"),
     Route("GET",  <<Lit("items"), Par("item_id")>>,         "read_item"),
     Route("GET",  <<Lit("users"), Par("user_id")>>,         "read_user"),
     Route("GET",  <<Lit("users"), Lit("me")>>,              "read_user_me"),
     Route("GET",  <<Lit("models"), Par("model_name")>>,     "get_model"),
     Route("GET",  <<Lit("items"), Lit("")>>,                "read_db_item"),
     Route("GET",  <<Lit("detailedItems"), Par("item_id")>>, "read_item_detailed"),
     Route("POST", <<Lit("items3"), Par("item_id")>>,        "create_item"),
     Route("POST", <<Lit("distance"), Lit("")>>,             "measure_distance"),
     Route("POST", <<Lit("distance2"), Lit("")>>,            "measure_distance2"),
     Route("GET",  <<Lit("items4"), Lit("")>>,               "read_items"),
     Route("GET",  <<Lit("items5"), Par("item_id")>>,        "read_items2"),
     Route("PUT",  <<Lit("items"), Par("item_id")>>,         "update_item"),
     Route("PUT",  <<Lit("items6"), Par("item_id")>>,        "update_item2"),
     Route("PUT",  <<Lit("items7"), Par("item_id")>>,        "update_item3"),
     Route("PUT",  <<Lit("items8"), Par("item_id")>>,        "update_item4"),
     Route("PUT",  <<Lit("items9"), Par("item_id")>>,        "update_item5"),
     Route("PUT",  <<Lit("items10"), Par("item_id")>>,       "update_item6"),
     Route("POST", <<Lit("index-weights"), Lit("")>>,        "create_index_weights") >>

Routes ==
  << Route("GET",  <<Lit("")>>,                              "root"),
     Route("GET",  <<Lit("items"), Par("item_id")>>,         "read_item"),
     Route("GET",  <<Lit("users"), Lit("me")>>,              "read_user_me"),
     Route("GET",  <<Lit("users"), Par("user_id")>>,         "read_user"),
     Route("GET",  <<Lit("models"), Par("model_name")>>,     "get_model"),
     Route("GET",  <<Lit("items"), Lit("")>>,                "read_db_item"),
     Route("GET",  <<Lit("detailedItems"), Par("item_id")>>, "read_item_detailed"),
     Route("POST", <<Lit("items3"), Par("item_id")>>,        "create_item"),
     Route("POST", <<Lit("distance"), Lit("")>>,             "measure_distance"),
     Route("POST", <<Lit("distance2"), Lit("")>>,            "measure_distance2"),
     Route("GET",  <<Lit("items4"), Lit("")>>,               "read_items"),
     Route("GET",  <<Lit("items5"), Par("item_id")>>,        "read_items2"),
     Route("PUT",  <<Lit("items"), Par("item_id")>>,         "update_item"),
     Route("PUT",  <<Lit("items6"), Par("item_id")>>,        "update_item2"),
     Route("PUT",  <<Lit("items7"), Par("item_id")>>,        "update_item3"),
     Route("PUT",  <<Lit("items8"), Par("item_id")>>,        "update_item4"),
     Route("PUT",  <<Lit("items9"), Par("item_id")>>,        "update_item5"),
     Route("PUT",  <<Lit("items10"), Par("item_id")>>,       "update_item6"),
     Route("POST", <<Lit("index-weights"), Lit("")>>,        "create_index_weights") >>

\* A placeholder matches any non-empty segment; a literal matches its text.
SegMatches(t, seg) ==
  IF t.param THEN ~(seg.k = "str" /\ seg.s = "")
             ELSE seg.k = "str" /\ seg.s = t.name

PathMatches(template, path) ==
  /\ Len(template) = Len(path)
  /\ \A i \in 1..Len(template) : SegMatches(template[i], path[i])

RouteMatches(r, req) == r.method = req.method /\ PathMatches(r.template, req.path)

\* The endpoint of the first registered route that matches, "" when none does.
Dispatch(req) ==
  LET hits == {i \in 1..Len(Routes) : RouteMatches(Routes[i], req)}
  IN  IF hits = {} THEN ""
      ELSE Routes[CHOOSE i \in hits : \A j \in hits : i <= j].endpoint

Req(m, p, q, b) == [method |-> m, path |-> p, query |-> q, body |-> b]

\* Responses: the handler body ran only when status is 200 or 500.
Ok(e, b)         == [status |-> 200, endpoint |-> e, ran |-> TRUE,  body |-> b]
Unprocessable(e) == [status |-> 422, endpoint |-> e, ran |-> FALSE, body |-> EmptyDict]
ServerError(e)   == [status |-> 500, endpoint |-> e, ran |-> TRUE,  body |-> EmptyDict]
NotFound         == [status |-> 404, endpoint |-> "", ran |-> FALSE, body |-> EmptyDict]
MethodNotAllowed == [status |-> 405, endpoint |-> "", ran |-> FALSE, body |-> EmptyDict]

\* Declared parameter types.
IsInt(v) == v.k = "int"

(***************************************************************************)
(* GET /users/me and GET /users/{user_id}                                  *)
(***************************************************************************)
UserNames == {"me", "alice", "bob", "Me"}

read_user_me == [user_id |-> "the current user"]

read_user(user_id) == [user_id |-> user_id]

UsersRequests == {Req("GET", <<Txt("users"), Txt(u)>>, EmptyDict, None) : u \in UserNames}

Req_read_user_me ==
  \E req \in UsersRequests :
    /\ Dispatch(req) = "read_user_me"
    /\ request' = req
    /\ response' = Ok("read_user_me", read_user_me)
    /\ UNCHANGED fake_items_db

Req_read_user ==
  \E req \in UsersRequests :
    /\ Dispatch(req) = "read_user"
    /\ request' = req
    /\ response' = Ok("read_user", read_user(req.path[2].s))
    /\ UNCHANGED fake_items_db

(***************************************************************************)
(* Parameter extraction shared by the handlers' signatures.                *)
(***************************************************************************)
HasQ(req, name) == name \in DOMAIN req.query

\* An optional query parameter is valid when absent or of the declared type.
OptIntOk(req, name) == HasQ(req, name) => IsInt(req.query[name])

\* int parameter with a default value.
QIntOr(req, name, default) == IF HasQ(req, name) THEN req.query[name].n ELSE default

\* int | None = None
QOptInt(req, name) == IF HasQ(req, name) THEN Some(req.query[name].n) ELSE None

\* Python truthiness of an int | None value.
TruthyInt(o) == o # None /\ o[1] # 0

OptQ(name, vals) == {EmptyDict} \cup {name :> v : v \in vals}

MaxQ == 1
QInts == {Num(n) : n \in (0 - MaxQ)..MaxQ}

(***************************************************************************)
(* GET /                                                                   *)
(***************************************************************************)
root == [message |-> "Hello World"]

RootRequests == {Req("GET", <<Txt("")>>, EmptyDict, None)}

Req_root ==
  \E req \in RootRequests :
    /\ Dispatch(req) = "root"
    /\ request' = req
    /\ response' = Ok("root", root)
    /\ UNCHANGED fake_items_db

(***************************************************************************)
(* GET /items/{item_id} and GET /items/                                    *)
(***************************************************************************)
MaxSkip == 5
SkipInts == {Num(n) : n \in (0 - MaxSkip)..MaxSkip}

PlainIds == {Num(n) : n \in 0..2}

ItemsGetRequests ==
  {Req("GET", <<Txt("items"), s>>, EmptyDict, None) : s \in PlainIds \cup {Txt("abc")}}
  \cup
  {Req("GET", <<Txt("items"), Txt("")>>, qs @@ ql, None) :
      qs \in OptQ("skip", SkipInts \cup {Txt("abc")}), ql \in OptQ("limit", SkipInts)}

read_item(item_id) == [item_id |-> item_id]

Req_read_item ==
  \E req \in ItemsGetRequests :
    /\ Dispatch(req) = "read_item"
    /\ request' = req
    /\ response' = IF IsInt(req.path[2])
                   THEN Ok("read_item", read_item(req.path[2].n))
                   ELSE Unprocessable("read_item")
    /\ UNCHANGED fake_items_db

\* Python's s[start:stop] on a list: a negative bound counts from the end,
\* and both bounds are clamped to [0, len(s)].
SliceBound(b, len) ==
  IF b < 0 THEN (IF b + len < 0 THEN 0 ELSE b + len)
           ELSE (IF b > len THEN len ELSE b)

Slice(s, start, stop) ==
  SubSeq(s, SliceBound(start, Len(s)) + 1, SliceBound(stop, Len(s)))

\* The slice taken up to limit instead of skip + limit.
read_db_item_stop(skip, limit) == Slice(fake_items_db, skip, limit)

read_db_item(skip, limit) == Slice(fake_items_db, skip, skip + limit)

\* The handler consuming the fixture elements it returns.
Req_read_db_item_pop ==
  \E req \in ItemsGetRequests :
    /\ Dispatch(req) = "read_db_item"
    /\ request' = req
    /\ response' = IF OptIntOk(req, "skip") /\ OptIntOk(req, "limit")
                   THEN Ok("read_db_item",
                           read_db_item(QIntOr(req, "skip", 0), QIntOr(req, "limit", 10)))
                   ELSE Unprocessable("read_db_item")
    /\ fake_items_db' = IF OptIntOk(req, "skip") /\ OptIntOk(req, "limit") /\ Len(fake_items_db) > 0
                        THEN Tail(fake_items_db) ELSE fake_items_db

Req_read_db_item ==
  \E req \in ItemsGetRequests :
    /\ Dispatch(req) = "read_db_item"
    /\ request' = req
    /\ response' = IF OptIntOk(req, "skip") /\ OptIntOk(req, "limit")
                   THEN Ok("read_db_item",
                           read_db_item(QIntOr(req, "skip", 0), QIntOr(req, "limit", 10)))
                   ELSE Unprocessable("read_db_item")
    /\ UNCHANGED fake_items_db

(***************************************************************************)
(* GET /models/{model_name}                                                *)
(***************************************************************************)
ModelName == {"alexnet", "resnet", "lenet"}

\* The second test comparing against a differently capitalised value.
get_model_case(model_name) ==
  IF model_name = "alexnet"
  THEN [model_name |-> model_name, message |-> "Deep Learning FTW!"]
  ELSE IF model_name = "LeNet"
  THEN [model_name |-> model_name, message |-> "LeCNN all the images"]
  ELSE [model_name |-> model_name, message |-> "Have some residuals"]

get_model(model_name) ==
  IF model_name = "alexnet"
  THEN [model_name |-> model_name, message |-> "Deep Learning FTW!"]
  ELSE IF model_name = "lenet"
  THEN [model_name |-> model_name, message |-> "LeCNN all the images"]
  ELSE [model_name |-> model_name, message |-> "Have some residuals"]

ModelsRequests ==
  {Req("GET", <<Txt("models"), Txt(m)>>, EmptyDict, None) :
      m \in ModelName \cup {"vgg", "AlexNet", "me"}}

Req_get_model ==
  \E req \in ModelsRequests :
    /\ Dispatch(req) = "get_model"
    /\ request' = req
    /\ response' = IF req.path[2].s \in ModelName
                   THEN Ok("get_model", get_model(req.path[2].s))
                   ELSE Unprocessable("get_model")
    /\ UNCHANGED fake_items_db

(***************************************************************************)
(* GET /detailedItems/{item_id}?short=...&q=...                            *)
(***************************************************************************)
\* Raw values converted to True and to False for a bool parameter.
BoolTrue  == {Num(1), Txt("True"), Txt("true"), Txt("on"), Txt("yes")}
BoolFalse == {Num(0), Txt("False"), Txt("false"), Txt("off"), Txt("no")}

read_item_detailed(item_id, short, q) ==
  LET item0 == "item_id" :> item_id
      item1 == IF TruthyInt(q) THEN Update(item0, "q" :> q[1]) ELSE item0
  IN  IF ~short
      THEN Update(item1, "description" :>
                  "This is an amazing product with a long description")
      ELSE item1

DetailedRequests ==
  {Req("GET", <<Txt("detailedItems"), Txt(i)>>, qs @@ qq, None) :
      i \in {"a", "b"},
      qs \in OptQ("short", {Num(1), Num(0), Txt("yes"), Txt("off"), Txt("maybe")}),
      qq \in OptQ("q", QInts \cup {Txt("abc")})}

Req_read_item_detailed ==
  \E req \in DetailedRequests :
    /\ Dispatch(req) = "read_item_detailed"
    /\ request' = req
    /\ response' = IF /\ HasQ(req, "short")
                      /\ req.query["short"] \in BoolTrue \cup BoolFalse
                      /\ OptIntOk(req, "q")
                   THEN Ok("read_item_detailed",
                           read_item_detailed(req.path[2].s,
                                              req.query["short"] \in BoolTrue,
                                              QOptInt(req, "q")))
                   ELSE Unprocessable("read_item_detailed")
    /\ UNCHANGED fake_items_db

(***************************************************************************)
(* Request bodies.  A JSON object is a function from field name to value;  *)
(* a model field with a default may be left out of the object.             *)
(***************************************************************************)
HasField(o, name) == name \in DOMAIN o

OptField(o, name) == IF HasField(o, name) THEN Some(o[name]) ELSE None

\* class Item(BaseModel): name and price are required.
ItemOk(o) == HasField(o, "name") /\ HasField(o, "price")

Item(o) == [name |-> o.name, description |-> OptField(o, "description"),
            price |-> o.price, tax |-> OptField(o, "tax")]

\* item.dict()
ItemDict(item) ==
  ("name" :> item.name) @@ ("description" :> item.description)
    @@ ("price" :> item.price) @@ ("tax" :> item.tax)

OptF(name, vals) == {EmptyDict} \cup {name :> v : v \in vals}

MaxPrice == 2
MaxTax == 1

ItemBodies ==
  {("name" :> "Foo") @@ d @@ p @@ t :
      d \in OptF("description", {"A very nice Item"}),
      p \in OptF("price", 1..MaxPrice),
      t \in OptF("tax", 0..MaxTax)}

\* The bodies used where the handler only echoes the item.
FewItemBodies ==
  {b \in ItemBodies : /\ HasField(b, "description") /\ ~HasField(b, "tax")
                      /\ (HasField(b, "price") => b.price = 1)}

(***************************************************************************)
(* POST /items3/{item_id}                                                  *)
(***************************************************************************)
create_item(item_id, item, q) ==
  LET result0 == Update("item_id" :> item_id, ItemDict(item))
      result1 == IF item.tax # None /\ item.tax[1] # 0
                 THEN Update(result0, "price_with_tax" :> (item.price + item.tax[1]))
                 ELSE result0
  IN  IF TruthyInt(q) THEN Update(result1, "q" :> q[1]) ELSE result1

CreateItemRequests ==
  {Req("POST", <<Txt("items3"), i>>, qq, b) :
      i \in {Num(1), Num(2), Txt("abc")},
      qq \in OptQ("q", QInts \cup {Txt("abc")}),
      b \in ItemBodies}

Req_create_item ==
  \E req \in CreateItemRequests :
    /\ Dispatch(req) = "create_item"
    /\ request' = req
    /\ response' = IF IsInt(req.path[2]) /\ ItemOk(req.body) /\ OptIntOk(req, "q")
                   THEN Ok("create_item",
                           create_item(req.path[2].n, Item(req.body), QOptInt(req, "q")))
                   ELSE Unprocessable("create_item")
    /\ UNCHANGED fake_items_db

(***************************************************************************)
(* POST /distance/ and POST /distance2/                                    *)
(***************************************************************************)
CoordXs == {0, 3}
CoordYs == {0, 4}

\* math.sqrt on the perfect squares the coordinates above produce.
sqrt(n) == CHOOSE r \in 0..n : r * r = n

measure_distance(loc1, loc2) ==
  sqrt((loc1[1] - loc2[1]) * (loc1[1] - loc2[1])
       + (loc1[2] - loc2[2]) * (loc1[2] - loc2[2]))

measure_distance2(loc1, loc2) ==
  sqrt((loc1.x - loc2.x) * (loc1.x - loc2.x) + (loc1.y - loc2.y) * (loc1.y - loc2.y))

DistanceRequests ==
  {Req("POST", <<Txt("distance"), Txt("")>>, EmptyDict, ("loc1" :> <<x1, y1>>) @@ l2) :
      x1 \in CoordXs, y1 \in CoordYs,
      l2 \in OptF("loc2", {<<x2, y2>> : x2 \in CoordXs, y2 \in CoordYs})}

Distance2Requests ==
  {Req("POST", <<Txt("distance2"), Txt("")>>, EmptyDict, ("loc1" :> [x |-> x1, y |-> y1]) @@ l2) :
      x1 \in CoordXs, y1 \in CoordYs,
      l2 \in OptF("loc2", {[x |-> x2, y |-> y2] : x2 \in CoordXs, y2 \in CoordYs})}

Req_measure_distance ==
  \E req \in DistanceRequests :
    /\ Dispatch(req) = "measure_distance"
    /\ request' = req
    /\ response' = IF HasField(req.body, "loc2")
                   THEN Ok("measure_distance", measure_distance(req.body.loc1, req.body.loc2))
                   ELSE Unprocessable("measure_distance")
    /\ UNCHANGED fake_items_db

Req_measure_distance2 ==
  \E req \in Distance2Requests :
    /\ Dispatch(req) = "measure_distance2"
    /\ request' = req
    /\ response' = IF HasField(req.body, "loc2")
                   THEN Ok("measure_distance2", measure_distance2(req.body.loc1, req.body.loc2))
                   ELSE Unprocessable("measure_distance2")
    /\ UNCHANGED fake_items_db

(***************************************************************************)
(* GET /items4/?q=...   A string whose characters the validation inspects  *)
(* is a sequence of one-character strings.                                 *)
(***************************************************************************)
MinLength == 3
MaxLength == 50
UpperCase == {"A", "B", "C", "D", "E", "F", "G", "H", "I", "J", "K", "L", "M",
              "N", "O", "P", "Q", "R", "S", "T", "U", "V", "W", "X", "Y", "Z"}

\* regex="^[A-Z]"
RegexMatches(s) == Len(s) >= 1 /\ s[1] \in UpperCase

\* The constraint without its min_length.
validq_nomin(q) == q # None => (Len(q[1]) <= MaxLength /\ RegexMatches(q[1]))

\* Query(min_length=3, max_length=50, regex="^[A-Z]") on str | None
validq(q) ==
  q # None => (Len(q[1]) >= MinLength /\ Len(q[1]) <= MaxLength /\ RegexMatches(q[1]))

read_items(q) ==
  LET results == "items" :> << [item_id |-> "Foo"], [item_id |-> "Bar"] >>
  IN  IF q # None /\ q[1] # <<>> THEN Update(results, "q" :> q[1]) ELSE results

\* The string of the given length that starts with c and continues with b's.
Chars(c, len) == [i \in 1..len |-> IF i = 1 THEN c ELSE "b"]

LenSlack == 1
QLens == 0..(MinLength + LenSlack) \cup (MaxLength - LenSlack)..(MaxLength + LenSlack)
QStrings == {Chars(c, len) : c \in {"A", "Z", "a", "1"}, len \in QLens}

ReadItemsRequests ==
  {Req("GET", <<Txt("items4"), Txt("")>>, qq, None) : qq \in OptQ("q", QStrings)}

Req_read_items ==
  \E req \in ReadItemsRequests :
    /\ Dispatch(req) = "read_items"
    /\ request' = req
    /\ response' = IF validq(OptField(req.query, "q"))
                   THEN Ok("read_items", read_items(OptField(req.query, "q")))
                   ELSE Unprocessable("read_items")
    /\ UNCHANGED fake_items_db

(***************************************************************************)
(* GET /items5/{item_id}?q=...                                             *)
(***************************************************************************)
Gt == 1
Le == 500

\* The lower bound taken as inclusive.
validID_ge(v) == IsInt(v) /\ v.n >= Gt /\ v.n <= Le

\* Path(le=500, gt=1) on int
validID(v) == IsInt(v) /\ v.n > Gt /\ v.n <= Le

IdSlack == 1
BoundedIds ==
  {Num(n) : n \in (Gt - IdSlack)..(Gt + IdSlack) \cup (Le - IdSlack)..(Le + IdSlack)}
    \cup {Txt("abc")}

read_items2(item_id, q) ==
  LET results == "item_id" :> item_id
  IN  IF q # "" THEN Update(results, "q" :> q) ELSE results

ReadItems2Requests ==
  {Req("GET", <<Txt("items5"), i>>, qq, None) :
      i \in BoundedIds, qq \in OptQ("q", {Txt(""), Txt("abc"), Txt("0")})}

Req_read_items2 ==
  \E req \in ReadItems2Requests :
    /\ Dispatch(req) = "read_items2"
    /\ request' = req
    /\ response' = IF validID(req.path[2]) /\ HasQ(req, "q")
                   THEN Ok("read_items2", read_items2(req.path[2].n, req.query["q"].s))
                   ELSE Unprocessable("read_items2")
    /\ UNCHANGED fake_items_db

(***************************************************************************)
(* PUT /items/{item_id} and PUT /items6/{item_id}: several body            *)
(* parameters, each under its own key of the JSON body.                    *)
(***************************************************************************)
\* @dataclass class User: username is required.
UserOk(o) == HasField(o, "username")

User(o) == [username |-> o.username, full_name |-> OptField(o, "full_name")]

UserBodies ==
  {u @@ f : u \in OptF("username", {"ann"}), f \in OptF("full_name", {"Ann Lee"})}
    \ {EmptyDict}

update_item(item_id, item, user) ==
  ("item_id" :> item_id) @@ ("item" :> item) @@ ("user" :> user)

UpdateItemRequests ==
  {Req("PUT", <<Txt("items"), i>>, EmptyDict, ("item" :> b) @@ u) :
      i \in BoundedIds, b \in FewItemBodies, u \in OptF("user", UserBodies)}

Req_update_item ==
  \E req \in UpdateItemRequests :
    /\ Dispatch(req) = "update_item"
    /\ request' = req
    /\ response' = IF /\ validID(req.path[2])
                      /\ ItemOk(req.body.item)
                      /\ (HasField(req.body, "user") => UserOk(req.body.user))
                   THEN Ok("update_item",
                           update_item(req.path[2].n, Item(req.body.item),
                                       IF HasField(req.body, "user")
                                       THEN Some(User(req.body.user)) ELSE None))
                   ELSE Unprocessable("update_item")
    /\ UNCHANGED fake_items_db

update_item2(item_id, item, user, importance) ==
  ("item_id" :> item_id) @@ ("item" :> item) @@ ("user" :> user)
    @@ ("importance" :> importance)

MaxImportance == 1

UpdateItem2Requests ==
  {Req("PUT", <<Txt("items6"), i>>, EmptyDict, ("item" :> b) @@ u @@ m) :
      i \in BoundedIds, b \in FewItemBodies, u \in OptF("user", UserBodies),
      m \in OptF("importance", 1..MaxImportance)}

Req_update_item2 ==
  \E req \in UpdateItem2Requests :
    /\ Dispatch(req) = "update_item2"
    /\ request' = req
    /\ response' = IF /\ validID(req.path[2])
                      /\ ItemOk(req.body.item)
                      /\ HasField(req.body, "user") /\ UserOk(req.body.user)
                      /\ HasField(req.body, "importance")
                   THEN Ok("update_item2",
                           update_item2(req.path[2].n, Item(req.body.item),
                                        User(req.body.user), req.body.importance))
                   ELSE Unprocessable("update_item2")
    /\ UNCHANGED fake_items_db

(***************************************************************************)
(* PUT /items7/{item_id} and PUT /items8/{item_id}: Body(embed=True)       *)
(***************************************************************************)
update_item3(item_id, item) == ("item_id" :> item_id) @@ ("item" :> item)

UpdateItem3Requests ==
  {Req("PUT", <<Txt("items7"), i>>, EmptyDict, b) :
      i \in PlainIds \cup {Txt("abc")},
      b \in OptF("item", FewItemBodies)}

Req_update_item3 ==
  \E req \in UpdateItem3Requests :
    /\ Dispatch(req) = "update_item3"
    /\ request' = req
    /\ response' = IF /\ IsInt(req.path[2])
                      /\ HasField(req.body, "item") /\ ItemOk(req.body.item)
                   THEN Ok("update_item3", update_item3(req.path[2].n, Item(req.body.item)))
                   ELSE Unprocessable("update_item3")
    /\ UNCHANGED fake_items_db

DescMaxLength == 10
PriceGt == 0

\* class Item2(BaseModel) with validDescription and validPrice
Item2Ok(o) ==
  /\ HasField(o, "name") /\ HasField(o, "price")
  /\ o.price > PriceGt
  /\ (HasField(o, "description") => Len(o.description) <= DescMaxLength)

Item2(o) == Item(o)

Item2Bodies ==
  {("name" :> "Foo") @@ d @@ p :
      d \in OptF("description",
                 {Chars("d", len) : len \in (DescMaxLength - LenSlack)..(DescMaxLength + LenSlack)}),
      p \in OptF("price", (PriceGt - 1)..MaxPrice)}

update_item4(item_id, item) == ("item_id" :> item_id) @@ ("item" :> item)

UpdateItem4Requests ==
  {Req("PUT", <<Txt("items8"), i>>, EmptyDict, b) :
      i \in PlainIds \cup {Txt("abc")},
      b \in OptF("item", Item2Bodies)}

Req_update_item4 ==
  \E req \in UpdateItem4Requests :
    /\ Dispatch(req) = "update_item4"
    /\ request' = req
    /\ response' = IF /\ IsInt(req.path[2])
                      /\ HasField(req.body, "item") /\ Item2Ok(req.body.item)
                   THEN Ok("update_item4", update_item4(req.path[2].n, Item2(req.body.item)))
                   ELSE Unprocessable("update_item4")
    /\ UNCHANGED fake_items_db

(***************************************************************************)
(* PUT /items9/{item_id} and PUT /items10/{item_id}: nested models         *)
(***************************************************************************)
UrlHttp    == <<"h", "t", "t", "p", ":", "/", "/", "a", ".", "b">>
UrlHttps   == <<"h", "t", "t", "p", "s", ":", "/", "/", "a", ".", "b", "/", "c">>
UrlFtp     == <<"f", "t", "p", ":", "/", "/", "a", ".", "b">>
UrlNoHost  == <<"h", "t", "t", "p", ":", "/", "/">>
UrlNoScheme == <<"a", ".", "b">>
Urls == {UrlHttp, UrlHttps, UrlFtp, UrlNoHost, UrlNoScheme, <<>>}

StartsWith(s, prefix) == Len(s) >= Len(prefix) /\ SubSeq(s, 1, Len(prefix)) = prefix

\* pydantic HttpUrl: scheme http or https, then "://", then a non-empty host.
HttpUrl(s) ==
  \E scheme \in {<<"h", "t", "t", "p">>, <<"h", "t", "t", "p", "s">>} :
    /\ StartsWith(s, scheme \o <<":", "/", "/">>)
    /\ Len(s) > Len(scheme) + 3
    /\ s[Len(scheme) + 4] # "/"

\* class Image(BaseModel): url: str, name: str
ImageOk(o) == HasField(o, "url") /\ HasField(o, "name")

\* Image2 with url declared as a plain str.
Image2Ok_str(o) == HasField(o, "url") /\ HasField(o, "name")

\* class Image2(BaseModel): url: HttpUrl, name: str
Image2Ok(o) == HasField(o, "url") /\ HasField(o, "name") /\ HttpUrl(o.url)

Image(o) == [url |-> o.url, name |-> o.name]

Range(t) == {t[i] : i \in 1..Len(t)}

\* class Item3(BaseModel): tags is a JSON array read as a set, image is optional.
Item3Ok(o) == ItemOk(o) /\ (HasField(o, "image") => ImageOk(o.image))

Item4Ok(o) == ItemOk(o) /\ (HasField(o, "image") => Image2Ok(o.image))

Item3(o) ==
  [name |-> o.name, description |-> OptField(o, "description"),
   price |-> o.price, tax |-> OptField(o, "tax"),
   tags |-> IF HasField(o, "tags") THEN Range(o.tags) ELSE {},
   image |-> IF HasField(o, "image") THEN Some(Image(o.image)) ELSE None]

ImageBodies ==
  {u @@ n : u \in OptF("url", Urls), n \in {"name" :> "pic"}}

NestedItemBodies ==
  {("name" :> "Foo") @@ p @@ t @@ i :
      p \in OptF("price", {1}),
      t \in OptF("tags", {<<"a", "b">>, <<"a", "a">>}),
      i \in OptF("image", ImageBodies)}

update_item5(item_id, item) == ("item_id" :> item_id) @@ ("item" :> item)

update_item6(item_id, item) == ("item_id" :> item_id) @@ ("item" :> item)

UpdateItem5Requests ==
  {Req("PUT", <<Txt("items9"), i>>, EmptyDict, b) :
      i \in {Num(1), Txt("abc")}, b \in NestedItemBodies}

UpdateItem6Requests ==
  {Req("PUT", <<Txt("items10"), i>>, EmptyDict, b) :
      i \in {Num(1), Txt("abc")}, b \in NestedItemBodies}

Req_update_item5 ==
  \E req \in UpdateItem5Requests :
    /\ Dispatch(req) = "update_item5"
    /\ request' = req
    /\ response' = IF IsInt(req.path[2]) /\ Item3Ok(req.body)
                   THEN Ok("update_item5", update_item5(req.path[2].n, Item3(req.body)))
                   ELSE Unprocessable("update_item5")
    /\ UNCHANGED fake_items_db

Req_update_item6 ==
  \E req \in UpdateItem6Requests :
    /\ Dispatch(req) = "update_item6"
    /\ request' = req
    /\ response' = IF IsInt(req.path[2]) /\ Item4Ok(req.body)
                   THEN Ok("update_item6", update_item6(req.path[2].n, Item3(req.body)))
                   ELSE Unprocessable("update_item6")
    /\ UNCHANGED fake_items_db

(***************************************************************************)
(* POST /index-weights/: the body is a JSON object whose keys are read as  *)
(* integers.                                                               *)
(***************************************************************************)
MaxKey == 2
MaxWeight == 2
WeightKeys == {Num(n) : n \in 0..MaxKey} \cup {Txt("abc")}

WeightBodies ==
  UNION {[K -> 1..MaxWeight] : K \in SUBSET WeightKeys}

\* dict[int, float]
WeightsOk(o) == \A key \in DOMAIN o : IsInt(key)

Weights(o) == [n \in {key.n : key \in DOMAIN o} |-> o[Num(n)]]

\* weights[1] raises KeyError when the key is missing.
KeyError(weights, key) == key \notin DOMAIN weights

\* The value of the smallest key returned instead of the value of key 1.
create_index_weights_first(weights) ==
  weights[CHOOSE k \in DOMAIN weights : \A j \in DOMAIN weights : k <= j]

create_index_weights(weights) == weights[1]

IndexWeightsRequests ==
  {Req("POST", <<Txt("index-weights"), Txt("")>>, EmptyDict, b) : b \in WeightBodies}

Req_create_index_weights ==
  \E req \in IndexWeightsRequests :
    /\ Dispatch(req) = "create_index_weights"
    /\ request' = req
    /\ response' = IF ~WeightsOk(req.body)
                   THEN Unprocessable("create_index_weights")
                   ELSE IF KeyError(Weights(req.body), 1)
                   THEN ServerError("create_index_weights")
                   ELSE Ok("create_index_weights", create_index_weights(Weights(req.body)))
    /\ UNCHANGED fake_items_db

(***************************************************************************)
(* Requests no registered route answers.                                   *)
(***************************************************************************)
UnroutedRequests ==
  {Req(m, p, EmptyDict, None) :
      m \in {"GET", "POST", "DELETE"},
      p \in {<<Txt("users")>>, <<Txt("users"), Txt("me")>>,
             <<Txt("users"), Txt("me"), Txt("")>>, <<Txt("nothing")>>}}

Req_unrouted ==
  \E req \in UnroutedRequests :
    /\ Dispatch(req) = ""
    /\ request' = req
    /\ response' = IF \E i \in 1..Len(Routes) : PathMatches(Routes[i].template, req.path)
                   THEN MethodNotAllowed
                   ELSE NotFound
    /\ UNCHANGED fake_items_db

Fixture == << [item_name |-> "Foo"], [item_name |-> "Bar"], [item_name |-> "Baz"] >>

Init ==
  /\ fake_items_db = Fixture
  /\ request = Req("", <<>>, EmptyDict, None)
  /\ response = NotFound

Next ==
  \/ Req_root
  \/ Req_read_item
  \/ Req_read_user_me
  \/ Req_read_user
  \/ Req_get_model
  \/ Req_read_db_item
  \/ Req_read_item_detailed
  \/ Req_create_item
  \/ Req_measure_distance
  \/ Req_measure_distance2
  \/ Req_read_items
  \/ Req_read_items2
  \/ Req_update_item
  \/ Req_update_item2
  \/ Req_update_item3
  \/ Req_update_item4
  \/ Req_update_item5
  \/ Req_update_item6
  \/ Req_create_index_weights
  \/ Req_unrouted

Spec == Init /\ [][Next]_vars

(***************************************************************************)
(* Properties.  Each is stated on the last request handled and the         *)
(* response it received.                                                   *)
(***************************************************************************)
\* The last request used method m on the two-segment path /lit/<x>.
On(m, lit) ==
  /\ request.method = m
  /\ Len(request.path) = 2
  /\ request.path[1] = Txt(lit)

Accepted == response.status = 200 /\ response.ran
Rejected == response.status >= 400 /\ response.status < 500 /\ ~response.ran

\* C1: GET /users/me is always answered by read_user_me with user_id
\* "the current user", never by read_user with user_id "me"; every other
\* GET /users/<x> is answered by read_user and echoes x.
C1_RoutePrecedence ==
  (On("GET", "users") /\ request.path[2].s # "") =>
    IF request.path[2] = Txt("me")
    THEN /\ response.endpoint = "read_user_me"
         /\ Accepted
         /\ response.body = [user_id |-> "the current user"]
    ELSE /\ response.endpoint = "read_user"
         /\ Accepted
         /\ response.body = [user_id |-> request.path[2].s]

C1_Witness ==
  /\ On("GET", "users") /\ request.path[2] = Txt("me")
  /\ response.endpoint = "read_user_me"

\* C2: on GET /items5/{item_id}, PUT /items/{item_id} and PUT /items6/{item_id}
\* an integer item_id outside 1 < item_id <= 500 ends in a client error with
\* the handler not run, and an integer item_id inside it is accepted whenever
\* the other declared parameters are valid.
InRange(n) == 1 < n /\ n <= 500

C2_OthersValid ==
  \/ On("GET", "items5") /\ "q" \in DOMAIN request.query
  \/ On("PUT", "items") /\ ItemOk(request.body.item)
       /\ ("user" \in DOMAIN request.body => UserOk(request.body.user))
  \/ On("PUT", "items6") /\ ItemOk(request.body.item)
       /\ "user" \in DOMAIN request.body /\ UserOk(request.body.user)
       /\ "importance" \in DOMAIN request.body

C2_IntId ==
  /\ On("GET", "items5") \/ On("PUT", "items") \/ On("PUT", "items6")
  /\ request.path[2].k = "int"

C2_BoundedPathParameter ==
  C2_IntId =>
    /\ (~InRange(request.path[2].n) => Rejected)
    /\ ((InRange(request.path[2].n) /\ C2_OthersValid) =>
          (Accepted /\ response.body["item_id"] = request.path[2].n))
    /\ (response.ran => InRange(request.path[2].n))
    /\ (request.path[2].n \in {1, 501} => Rejected)

C2_Witness ==
  /\ On("PUT", "items6") /\ request.path[2] = Num(500)
  /\ Accepted

\* C3: on GET /models/{model_name} each member of ModelName gets its own
\* message and is echoed, any other value is rejected without the handler
\* running, and the fallback message is returned only for resnet.
C3_Message ==
  ("alexnet" :> "Deep Learning FTW!") @@ ("lenet" :> "LeCNN all the images")
    @@ ("resnet" :> "Have some residuals")

C3_LabelBranch ==
  On("GET", "models") =>
    IF request.path[2].s \in {"alexnet", "resnet", "lenet"}
    THEN /\ Accepted
         /\ response.endpoint = "get_model"
         /\ response.body.model_name = request.path[2].s
         /\ response.body.message = C3_Message[request.path[2].s]
         /\ (response.body.message = "Have some residuals" => request.path[2].s = "resnet")
    ELSE Rejected

C3_Witness ==
  /\ On("GET", "models") /\ request.path[2] = Txt("lenet")
  /\ Accepted /\ response.body.message = "LeCNN all the images"

\* The elements of the fixture whose 0-based index i satisfies lo <= i < hi.
IndexRange(lo, hi) ==
  LET a == IF lo < 0 THEN 0 ELSE lo
      b == IF hi > 3 THEN 3 ELSE hi
  IN  SubSeq(<< [item_name |-> "Foo"], [item_name |-> "Bar"], [item_name |-> "Baz"] >>,
             a + 1, b)

C4_IsRange ==
  /\ On("GET", "items")
  /\ request.path[2] = Txt("")
  /\ \A name \in DOMAIN request.query : request.query[name].k = "int"

C4_skip == IF "skip" \in DOMAIN request.query THEN request.query["skip"].n ELSE 0
C4_limit == IF "limit" \in DOMAIN request.query THEN request.query["limit"].n ELSE 10

\* C4 as stated: for every integer skip and limit read_db_item returns exactly
\* the fixture elements with skip <= i < skip + limit and 0 <= i < 3.
C4_AsStated ==
  C4_IsRange =>
    /\ Accepted
    /\ response.body = IndexRange(C4_skip, C4_skip + C4_limit)

\* A negative slice bound counts from the end of the 3-element fixture.
C4_FromEnd(b) == IF b < 0 THEN b + 3 ELSE b

\* C4 (amended): for every integer skip and limit read_db_item never raises and
\* returns, in fixture order, the fixture elements with lo <= i < hi and
\* 0 <= i < 3, where lo and hi are skip and skip + limit, each counted from the
\* end of the fixture when negative; so for skip >= 0 and skip + limit >= 0 it
\* is the requested sub-range truncated to the fixture, skip=0, limit=10 gives
\* all three elements and skip=5 gives the empty sequence.
C4_RangeHandler ==
  C4_IsRange =>
    /\ Accepted
    /\ response.endpoint = "read_db_item"
    /\ response.body = IndexRange(C4_FromEnd(C4_skip), C4_FromEnd(C4_skip + C4_limit))
    /\ ((C4_skip >= 0 /\ C4_skip + C4_limit >= 0) =>
          response.body = IndexRange(C4_skip, C4_skip + C4_limit))
    /\ ((C4_skip = 0 /\ C4_limit = 10) => Len(response.body) = 3)
    /\ (C4_skip = 5 => response.body = <<>>)

C4_Witness ==
  /\ C4_IsRange /\ C4_skip = 0 - 1 /\ C4_limit = 10
  /\ Accepted /\ response.body = << [item_name |-> "Baz"] >>

\* C5: create_item answers every validated request with item_id and the four
\* body fields unchanged, with price_with_tax = price + tax exactly when tax is
\* present and non-zero, and with q exactly when a q value was supplied.
C5_CreateItem ==
  (On("POST", "items3") /\ Accepted) =>
    LET b == request.body
        r == response.body
        tax == IF "tax" \in DOMAIN b THEN <<b.tax>> ELSE <<>>
    IN  /\ r["item_id"] = request.path[2].n
        /\ r["name"] = b.name /\ r["price"] = b.price /\ r["tax"] = tax
        /\ r["description"] = (IF "description" \in DOMAIN b THEN <<b.description>> ELSE <<>>)
        /\ ("price_with_tax" \in DOMAIN r) = (tax # <<>> /\ tax # <<0>>)
        /\ ("price_with_tax" \in DOMAIN r => r["price_with_tax"] = b.price + b.tax)
        /\ ("q" \in DOMAIN r) = ("q" \in DOMAIN request.query)
        /\ ("q" \in DOMAIN r => r["q"] = request.query["q"].n)

\* C6: read_items2 answers every validated request (item_id in (1, 500], q
\* supplied, whatever its value) with a payload holding item_id and q.
C6_Validated ==
  /\ On("GET", "items5")
  /\ request.path[2].k = "int"
  /\ InRange(request.path[2].n)
  /\ "q" \in DOMAIN request.query

C6_ReadItems2 ==
  C6_Validated =>
    /\ Accepted
    /\ response.body["item_id"] = request.path[2].n
    /\ "q" \in DOMAIN response.body
    /\ response.body["q"] = request.query["q"].s

\* C7: on GET /items4/ a supplied q is accepted exactly when its length is
\* between 3 and 50 and its first character is in A-Z, an absent q is
\* accepted, and an accepted response is the fixed items payload plus q
\* exactly when q was supplied.
C7_ConstrainedString ==
  (On("GET", "items4") /\ request.path[2] = Txt("")) =>
    LET supplied == "q" \in DOMAIN request.query
        q == request.query["q"]
    IN  /\ (supplied =>
              (Accepted <=> (3 <= Len(q) /\ Len(q) <= 50 /\ q[1] \in UpperCase)))
        /\ ((supplied /\ ~Accepted) => Rejected)
        /\ (~supplied => Accepted)
        /\ (Accepted =>
              (/\ response.body["items"] = << [item_id |-> "Foo"], [item_id |-> "Bar"] >>
               /\ DOMAIN response.body = (IF supplied THEN {"items", "q"} ELSE {"items"})
               /\ (supplied => response.body["q"] = q)))

C7_Witness ==
  /\ On("GET", "items4") /\ "q" \in DOMAIN request.query
  /\ Len(request.query["q"]) = 50
  /\ Accepted /\ "q" \in DOMAIN response.body

\* The last request carried an item body with a nested image that has a url.
C8_HasImage ==
  /\ "image" \in DOMAIN request.body
  /\ "url" \in DOMAIN request.body.image

C8_ImageEchoed ==
  /\ Accepted
  /\ response.body["item"].image =
       << [url |-> request.body.image.url, name |-> request.body.image.name] >>

\* C8 as stated: on PUT /items9/{item_id} and PUT /items10/{item_id} a nested
\* image with a malformed url makes the whole request rejected.
C8_Malformed(lit) ==
  /\ On("PUT", lit)
  /\ C8_HasImage
  /\ ~HttpUrl(request.body.image.url)

\* The rest of the request is valid and the image, if it has to be, well-formed.
C8_WellFormed(lit, checked) ==
  /\ On("PUT", lit)
  /\ C8_HasImage
  /\ request.path[2].k = "int"
  /\ "price" \in DOMAIN request.body
  /\ (checked => HttpUrl(request.body.image.url))

C9_IndexWeights ==
  (On("POST", "index-weights") /\ (\A key \in DOMAIN request.body : key.k = "int")) =>
    IF Num(1) \in DOMAIN request.body
    THEN Accepted /\ response.body = request.body[Num(1)]
    ELSE response.status = 500 /\ response.ran

C9_Witness ==
  /\ On("POST", "index-weights")
  /\ DOMAIN request.body = {Num(0), Num(1), Num(2)}
  /\ request.body[Num(0)] # request.body[Num(1)]
  /\ Accepted

\* The next request handled is the same request as the last one.
C10_SameRequest ==
  /\ request'.method = request.method
  /\ request'.path = request.path
  /\ request'.query = request.query
  /\ request'.body = request.body

\* C10: after any sequence of requests fake_items_db still holds its three
\* initial elements in the initial order, and a request handled again gets
\* the response it got before.
C10_RequestIndependence ==
  /\ [](fake_items_db =
          << [item_name |-> "Foo"], [item_name |-> "Bar"], [item_name |-> "Baz"] >>)
  /\ [][C10_SameRequest => response' = response]_vars

C10_Witness ==
  /\ C4_IsRange /\ Accepted /\ Len(response.body) = 2
  /\ fake_items_db = Fixture

====
